---- MODULE Spec2Model ----
(***************************************************************************)
(* Model of the in-memory items API of src/app.py: the item list items_db, *)
(* the counter next_id, and the request handlers health, get_items,        *)
(* get_item, create_item, delete_item with the before_request hook and     *)
(* the two error handlers.                                                 *)
(*                                                                         *)
(* Spec     handles requests one at a time: one action per handler, the    *)
(*          whole handler (hook, store access, logging, response).         *)
(* SpecConc handles requests on concurrent workers: one action per step    *)
(*          at which the interpreter can switch threads.                   *)
(***************************************************************************)
EXTENDS Integers, Sequences, FiniteSets, TLC

(* ------------------------------ bounds -------------------------------- *)

\* Largest number of successful creates in a run (next_id is unbounded in
\* the code; a create that would succeed is
\* enabled only while next_id < InitialNextId + MaxCreates).
MaxCreates == 2

\* The same, for the runs of SpecConc.
MaxConcCreates == 1

(* --------------------------- program constants ------------------------ *)

APP_NAME == "DevOps Project API"
API_VERSION == "v1"

\* The value next_id is given at import time.
InitialNextId == 3

(* ------------------------------ inputs -------------------------------- *)

\* Values datetime.now().isoformat() can return (strings, opaque here).
Times == {"2026-01-01T00:00:00", "2026-01-01T00:00:01"}

\* Values str(uuid.uuid4()) can return.
RequestIds == {"uuid-a", "uuid-b"}

\* Path ids the <int:item_id> converter accepts (non-negative integers):
\* 0 is never an item id, the others cover every id the run can issue.
PathIds == 0 .. (InitialNextId + MaxCreates - 1)

\* Paths of GET requests that match no route.
UnroutedPaths == {"/nowhere", "/api/items/-1"}

\* JSON objects a client can send as the body of POST /api/items.
Objects ==
    { <<>>,
      [description |-> "Blue"],
      [name |-> ""],
      [name |-> "Widget"],
      [name |-> "Gadget", description |-> "Blue", id |-> 1] }

\* What request.get_json() returns: None, a dict, or a list.
Bodies ==
    {[json |-> "null"]}
        \cup {[json |-> "object", obj |-> o] : o \in Objects}
        \cup {[json |-> "array", arr |-> <<"name">>]}

(* ------------------------------- state -------------------------------- *)

VARIABLES
    items_db,   \* the module-level list of item dicts
    next_id,    \* the module-level counter
    req,        \* the request handled last (Spec)
    resp,       \* its response: [body, status] (Spec)
    log,        \* the log entries emitted while handling it (Spec)
    issued,     \* history: the ids ever given to an item (seeds included)
    removed,    \* history: the ids a delete has answered 200 for
    expected,   \* history: the items a client expects in the store, from
                \* the responses it has seen (201 bodies appended, ids of
                \* 200 deletes taken out)
    pc,         \* SpecConc: where each worker thread is in its handler
    wreq,       \* SpecConc: the request each worker is handling / handled last
    loc,        \* SpecConc: the local variables of each worker's handler
    wresp,      \* SpecConc: the response each worker returned last
    wlog,       \* SpecConc: the log entries of each worker's request
    during      \* history (SpecConc): for each worker handling a read, the
                \* items that have been in items_db at some moment since
                \* its request started

vars == <<items_db, next_id, req, resp, log, issued, removed, expected,
          pc, wreq, loc, wresp, wlog, during>>

store == <<items_db, next_id>>
history == <<issued, removed, expected, during>>
seq == <<req, resp, log>>
conc == <<pc, wreq, loc, wresp, wlog>>

(* ------------------------------ helpers ------------------------------- *)

Digit(d) == <<"0", "1", "2", "3", "4", "5", "6", "7", "8", "9">>[d + 1]

\* str(n) of a non-negative integer, as an f-string renders it.
RECURSIVE IntToStr(_)
IntToStr(n) == IF n < 10 THEN Digit(n) ELSE IntToStr(n \div 10) \o Digit(n % 10)

Ids(db) == {db[i].id : i \in 1 .. Len(db)}

\* Python's None / a value, as an empty or one-element sequence.
None == <<>>
Some(x) == <<x>>

\* Mutant of FindItem: the path id used as a position in the list.
FindItemByPosition(db, item_id) ==
    IF item_id \in 1 .. Len(db) THEN <<db[item_id]>> ELSE <<>>

\* next((item for item in db if item["id"] == item_id), None)
FindItem(db, item_id) ==
    IF \E i \in 1 .. Len(db) : db[i].id = item_id
    THEN LET first == CHOOSE i \in 1 .. Len(db) :
                          /\ db[i].id = item_id
                          /\ \A j \in 1 .. (i - 1) : db[j].id # item_id
         IN  Some(db[first])
    ELSE None

\* Mutants of RemoveItem: the comparison inverted, always true, or "<".
RemoveItemInverted(db, item_id) ==
    LET keep(item) == item.id = item_id IN SelectSeq(db, keep)
RemoveItemNoop(db, item_id) == db
RemoveItemBelow(db, item_id) ==
    LET keep(item) == item.id < item_id IN SelectSeq(db, keep)

\* Mutant of RemoveItem: del db[item_id - 1], the id used as a position.
RemoveItemByPosition(db, item_id) ==
    IF item_id \in 1 .. Len(db)
    THEN SubSeq(db, 1, item_id - 1) \o SubSeq(db, item_id + 1, Len(db))
    ELSE db

\* Mutant of RemoveItem: the survivors renumbered 1, 2, ...
RemoveItemRenumbering(db, item_id) ==
    LET keep(item) == item.id # item_id
        kept == SelectSeq(db, keep)
    IN  [i \in 1 .. Len(kept) |-> [kept[i] EXCEPT !.id = i]]

\* [item for item in db if item["id"] != item_id]
RemoveItem(db, item_id) ==
    LET keep(item) == item.id # item_id IN SelectSeq(db, keep)

\* not data or 'name' not in data
InvalidData(data) ==
    \/ data.json = "null"
    \/ data.json = "object" /\ DOMAIN data.obj = {}
    \/ data.json = "object" /\ "name" \notin DOMAIN data.obj
    \/ data.json = "array" /\ Len(data.arr) = 0
    \/ data.json = "array" /\ \A i \in 1 .. Len(data.arr) : data.arr[i] # "name"

\* data['name'] and data.get('description', '') raise TypeError/AttributeError
\* on a list.
Subscriptable(data) == data.json = "object"

\* Mutant of GetDescription: the description of the body dropped.
GetDescriptionDropped(obj) == ""

\* data.get('description', '')
GetDescription(obj) ==
    IF "description" \in DOMAIN obj THEN obj["description"] ELSE ""

\* Mutant of NewItem: the id taken from the body when the client sends one.
NewItemClientId(nid, obj, now) ==
    [id |-> IF "id" \in DOMAIN obj THEN obj["id"] ELSE nid,
     name |-> obj["name"],
     description |-> GetDescription(obj),
     created_at |-> now]

\* The dict literal of create_item.
NewItem(nid, obj, now) ==
    [id |-> nid,
     name |-> obj["name"],
     description |-> GetDescription(obj),
     created_at |-> now]

\* Mutant of Advance: the counter left where it was.
NoAdvance(n) == n

\* next_id += 1
Advance(n) == n + 1

\* jsonify(body), status
Response(body, status) == [body |-> body, status |-> status]

NoResponse == [body |-> [none |-> TRUE], status |-> 0]
NoRequest == [op |-> "none"]

\* The worker threads of the server (SpecConc).
Workers == {"w1", "w2"}

\* A handler's locals before it has assigned any.
NoLocals ==
    [new_item |-> <<>>, tmp |-> 0, filtered |-> <<>>,
     ref |-> "none", snapshot |-> <<>>, count |-> 0]

(* ---------------------------- log entries ----------------------------- *)

\* The entry before_request logs, with the uuid it has bound to the request.
before_request(rid, method, path) ==
    [level |-> "INFO", message |-> "Incoming request", request_id |-> rid,
     method |-> method, path |-> path]

LogEntry(level, message, rid) ==
    [level |-> level, message |-> message, request_id |-> rid]

\* The record the framework logs for an exception a handler raised, before
\* it calls the 500 handler: no extra fields, so no request_id.  The root
\* logger's handler emits it like the application's own entries.
log_exception(method, path) ==
    [level |-> "ERROR",
     message |-> "Exception on " \o path \o " [" \o method \o "]"]

ItemsPath == "/api/items"
ItemPath(item_id) == "/api/items/" \o IntToStr(item_id)

(* ------------------------------- Init --------------------------------- *)

SeedItems(t1, t2) ==
    << [id |-> 1, name |-> "Item 1", description |-> "First item", created_at |-> t1],
       [id |-> 2, name |-> "Item 2", description |-> "Second item", created_at |-> t2] >>

InitWith(times) ==
    /\ \E t1 \in times, t2 \in times : items_db = SeedItems(t1, t2)
    /\ next_id = InitialNextId
    /\ req = NoRequest
    /\ resp = NoResponse
    /\ log = <<>>
    /\ issued = Ids(items_db)
    /\ removed = {}
    /\ expected = items_db
    /\ pc = [w \in Workers |-> "idle"]
    /\ wreq = [w \in Workers |-> NoRequest]
    /\ loc = [w \in Workers |-> NoLocals]
    /\ wresp = [w \in Workers |-> NoResponse]
    /\ wlog = [w \in Workers |-> <<>>]
    /\ during = [w \in Workers |-> {}]

Init == InitWith(Times)

(* ------------------- handlers, one request at a time ------------------ *)

\* Mutant of health: the answer made to depend on the store.
health_probing_store ==
    \E rid \in RequestIds, now \in Times :
        /\ req' = [op |-> "health"]
        /\ resp' = IF items_db = <<>>
                    THEN Response([status |-> "unhealthy", timestamp |-> now,
                                   service |-> APP_NAME, version |-> API_VERSION], 503)
                    ELSE Response([status |-> "healthy", timestamp |-> now,
                                   service |-> APP_NAME, version |-> API_VERSION], 200)
        /\ log' = << before_request(rid, "GET", "/health") >>
        /\ UNCHANGED <<store, history, conc>>

\* GET /health
health ==
    \E rid \in RequestIds, now \in Times :
        /\ req' = [op |-> "health"]
        /\ resp' = Response([status |-> "healthy", timestamp |-> now,
                             service |-> APP_NAME, version |-> API_VERSION], 200)
        /\ log' = << before_request(rid, "GET", "/health") >>
        /\ UNCHANGED <<store, history, conc>>

\* GET /api/items
get_items ==
    \E rid \in RequestIds :
        /\ req' = [op |-> "list"]
        /\ resp' = Response([items |-> items_db, count |-> Len(items_db)], 200)
        /\ log' = << before_request(rid, "GET", ItemsPath),
                     LogEntry("INFO", "Fetching all items", rid) >>
        /\ UNCHANGED <<store, history, conc>>

\* Mutant of get_item: the item found is taken out of the list.
get_item_popping ==
    \E rid \in RequestIds, item_id \in PathIds :
        LET item == FindItem(items_db, item_id)
            entry == << before_request(rid, "GET", ItemPath(item_id)),
                        LogEntry("INFO", "Fetching item " \o IntToStr(item_id), rid) >>
        IN  /\ req' = [op |-> "get", item_id |-> item_id]
            /\ IF item = None
               THEN /\ resp' = Response([error |-> "Item not found"], 404)
                    /\ log' = Append(entry,
                           LogEntry("WARNING",
                               "Item " \o IntToStr(item_id) \o " not found", rid))
                    /\ UNCHANGED items_db
               ELSE /\ resp' = Response(item[1], 200)
                    /\ log' = entry
                    /\ items_db' = RemoveItem(items_db, item_id)
            /\ UNCHANGED <<next_id, history, conc>>

\* GET /api/items/<int:item_id>
get_item ==
    \E rid \in RequestIds, item_id \in PathIds :
        LET item == FindItem(items_db, item_id)
            entry == << before_request(rid, "GET", ItemPath(item_id)),
                        LogEntry("INFO", "Fetching item " \o IntToStr(item_id), rid) >>
        IN  /\ req' = [op |-> "get", item_id |-> item_id]
            /\ IF item = None
               THEN /\ resp' = Response([error |-> "Item not found"], 404)
                    /\ log' = Append(entry,
                           LogEntry("WARNING",
                               "Item " \o IntToStr(item_id) \o " not found", rid))
               ELSE /\ resp' = Response(item[1], 200)
                    /\ log' = entry
            /\ UNCHANGED <<store, history, conc>>

\* Mutant of create_item: the counter advanced before the body is validated.
create_item_consuming_id ==
    \E rid \in RequestIds, data \in Bodies, now \in Times :
        LET entry == << before_request(rid, "POST", ItemsPath) >> IN
        /\ InvalidData(data) \/ ~Subscriptable(data)
               \/ next_id < InitialNextId + MaxCreates
        /\ req' = [op |-> "create", data |-> data]
        /\ IF InvalidData(data)
           THEN /\ resp' = Response([error |-> "Name is required"], 400)
                /\ log' = Append(entry, LogEntry("ERROR", "Invalid request data", rid))
                /\ next_id' = Advance(next_id)
                /\ UNCHANGED <<items_db, history, conc>>
           ELSE IF ~Subscriptable(data)
           THEN \* data['name'] raises: the 500 handler answers
                /\ resp' = Response([error |-> "Internal server error"], 500)
                /\ log' = entry \o
                       << log_exception("POST", ItemsPath),
                          LogEntry("ERROR", "Internal server error", rid) >>
                /\ UNCHANGED <<store, history, conc>>
           ELSE LET new_item == NewItem(next_id, data.obj, now) IN
                /\ items_db' = Append(items_db, new_item)
                /\ next_id' = Advance(next_id)
                /\ resp' = Response(new_item, 201)
                /\ log' = Append(entry,
                       [level |-> "INFO",
                        message |-> "Created item " \o IntToStr(new_item.id),
                        request_id |-> rid, item_id |-> new_item.id])
                /\ issued' = issued \cup {new_item.id}
                /\ expected' = Append(expected, resp'.body)
                /\ UNCHANGED <<removed, during, conc>>

\* POST /api/items
create_item ==
    \E rid \in RequestIds, data \in Bodies, now \in Times :
        LET entry == << before_request(rid, "POST", ItemsPath) >> IN
        /\ InvalidData(data) \/ ~Subscriptable(data)
               \/ next_id < InitialNextId + MaxCreates
        /\ req' = [op |-> "create", data |-> data]
        /\ IF InvalidData(data)
           THEN /\ resp' = Response([error |-> "Name is required"], 400)
                /\ log' = Append(entry, LogEntry("ERROR", "Invalid request data", rid))
                /\ UNCHANGED <<store, history, conc>>
           ELSE IF ~Subscriptable(data)
           THEN \* data['name'] raises: the 500 handler answers
                /\ resp' = Response([error |-> "Internal server error"], 500)
                /\ log' = entry \o
                       << log_exception("POST", ItemsPath),
                          LogEntry("ERROR", "Internal server error", rid) >>
                /\ UNCHANGED <<store, history, conc>>
           ELSE LET new_item == NewItem(next_id, data.obj, now) IN
                /\ items_db' = Append(items_db, new_item)
                /\ next_id' = Advance(next_id)
                /\ resp' = Response(new_item, 201)
                /\ log' = Append(entry,
                       [level |-> "INFO",
                        message |-> "Created item " \o IntToStr(new_item.id),
                        request_id |-> rid, item_id |-> new_item.id])
                /\ issued' = issued \cup {new_item.id}
                /\ expected' = Append(expected, resp'.body)
                /\ UNCHANGED <<removed, during, conc>>

\* DELETE /api/items/<int:item_id>
delete_item ==
    \E rid \in RequestIds, item_id \in PathIds :
        LET item == FindItem(items_db, item_id)
            entry == << before_request(rid, "DELETE", ItemPath(item_id)),
                        LogEntry("INFO", "Deleting item " \o IntToStr(item_id), rid) >>
        IN  /\ req' = [op |-> "delete", item_id |-> item_id]
            /\ IF item = None
               THEN /\ resp' = Response([error |-> "Item not found"], 404)
                    /\ log' = Append(entry,
                           LogEntry("WARNING",
                               "Item " \o IntToStr(item_id) \o " not found for deletion",
                               rid))
                    /\ UNCHANGED <<store, history, conc>>
               ELSE /\ items_db' = RemoveItem(items_db, item_id)
                    /\ resp' = Response(
                           [message |-> "Item " \o IntToStr(item_id)
                                            \o " deleted successfully"], 200)
                    /\ log' = Append(entry,
                           LogEntry("INFO", "Deleted item " \o IntToStr(item_id), rid))
                    /\ removed' = removed \cup {item_id}
                    /\ expected' = LET other(e) == e.id # item_id
                                   IN  SelectSeq(expected, other)
                    /\ UNCHANGED <<next_id, issued, during, conc>>

\* A request no route matches (the int converter matches digits only): the
\* 404 error handler answers, after the before_request hook.
not_found ==
    \E rid \in RequestIds, path \in UnroutedPaths :
        /\ req' = [op |-> "unrouted", path |-> path]
        /\ resp' = Response([error |-> "Endpoint not found"], 404)
        /\ log' = << before_request(rid, "GET", path) >>
        /\ UNCHANGED <<store, history, conc>>

Next ==
    \/ health
    \/ get_items
    \/ get_item
    \/ create_item
    \/ delete_item
    \/ not_found

Spec == Init /\ [][Next]_vars

(* ------------------- handlers on concurrent workers ------------------- *)
(* One action per stretch of a handler between two accesses to the shared  *)
(* globals items_db and next_id: the interpreter can switch threads        *)
(* between any two of them.  A read of the list (a search, a filter, the   *)
(* serialisation of a response) is one step; the reference get_items       *)
(* loads for "items" is to the list object, which an append changes in     *)
(* place and which delete_item replaces by a new object.                   *)

\* The requests the workers are given.
ConcBodies ==
    { [json |-> "object", obj |-> <<>>],
      [json |-> "object", obj |-> [name |-> "Widget"]],
      [json |-> "array", arr |-> <<"name">>] }
ConcPathIds == {1, InitialNextId}
ConcTimes == {"2026-01-01T00:00:00"}

\* str(uuid.uuid4()) for a request worker w starts: any id but the one
\* bound to the request of another worker (uuid4 is taken not to repeat
\* an id that is still in use).
ConcRequestIds(w) ==
    RequestIds \ {wreq[u].request_id :
                      u \in {v \in Workers \ {w} : "request_id" \in DOMAIN wreq[v]}}

ConcRequests ==
    {[op |-> "health"], [op |-> "list"]}
        \cup {[op |-> "get", item_id |-> k] : k \in ConcPathIds}
        \cup {[op |-> "delete", item_id |-> k] : k \in ConcPathIds}
        \cup {[op |-> "create", data |-> d] : d \in ConcBodies}

Method(r) ==
    CASE r.op = "create" -> "POST"
      [] r.op = "delete" -> "DELETE"
      [] OTHER -> "GET"

Path(r) ==
    CASE r.op = "health" -> "/health"
      [] r.op \in {"list", "create"} -> ItemsPath
      [] OTHER -> ItemPath(r.item_id)

\* request.request_id, the attribute before_request has set on the request
\* object of worker w's thread
Rid(w) == wreq[w].request_id

\* return jsonify(body), status: the handler's frame is gone.
Return(w, body, status, entries) ==
    /\ wresp' = [wresp EXCEPT ![w] = Response(body, status)]
    /\ wlog' = [wlog EXCEPT ![w] = wlog[w] \o entries]
    /\ pc' = [pc EXCEPT ![w] = "idle"]

\* The requests that only read the store, and where their handlers are.
ReadOps == {"list", "get"}
Reading(w) == pc[w] \in {"list", "list_len", "list_send", "get"}

Range(s) == {s[i] : i \in 1 .. Len(s)}

\* The history of the reads in flight once the store has come to hold
\* the items new.
Seen(new) ==
    [u \in Workers |-> IF Reading(u) THEN during[u] \cup new ELSE during[u]]

\* before_request, then dispatch to the handler of the route.
Start(w) ==
    \E r \in ConcRequests, rid \in ConcRequestIds(w) :
        /\ pc[w] = "idle"
        /\ wreq' = [wreq EXCEPT ![w] = [request_id |-> rid] @@ r]
        /\ wresp' = [wresp EXCEPT ![w] = NoResponse]
        /\ wlog' = [wlog EXCEPT ![w] = << before_request(rid, Method(r), Path(r)) >>]
        /\ loc' = [loc EXCEPT ![w] = NoLocals]
        /\ pc' = [pc EXCEPT ![w] = r.op]
        /\ during' = [during EXCEPT ![w] =
                          IF r.op \in ReadOps THEN Range(items_db) ELSE {}]
        /\ UNCHANGED <<store, issued, removed, expected, seq>>

\* health()
HealthStep(w) ==
    \E now \in ConcTimes :
        /\ pc[w] = "health"
        /\ Return(w, [status |-> "healthy", timestamp |-> now,
                      service |-> APP_NAME, version |-> API_VERSION], 200, <<>>)
        /\ UNCHANGED <<store, history, seq, wreq, loc>>

\* get_items(): "items": items_db loads the reference to the list
ListRef(w) ==
    /\ pc[w] = "list"
    /\ loc' = [loc EXCEPT ![w].ref = "live"]
    /\ wlog' = [wlog EXCEPT ![w] =
                   Append(wlog[w], LogEntry("INFO", "Fetching all items", Rid(w)))]
    /\ pc' = [pc EXCEPT ![w] = "list_len"]
    /\ UNCHANGED <<store, history, seq, wreq, wresp>>

\* get_items(): "count": len(items_db)
ListLen(w) ==
    /\ pc[w] = "list_len"
    /\ loc' = [loc EXCEPT ![w].count = Len(items_db)]
    /\ pc' = [pc EXCEPT ![w] = "list_send"]
    /\ UNCHANGED <<store, history, seq, wreq, wresp, wlog>>

\* The list object a worker's reference is to: the global one, or the one
\* a delete has replaced since the reference was loaded.
Referenced(w) == IF loc[w].ref = "live" THEN items_db ELSE loc[w].snapshot

\* get_items(): jsonify serialises the referenced list
ListSend(w) ==
    /\ pc[w] = "list_send"
    /\ Return(w, [items |-> Referenced(w), count |-> loc[w].count], 200, <<>>)
    /\ loc' = [loc EXCEPT ![w] = NoLocals]
    /\ UNCHANGED <<store, history, seq, wreq>>

\* get_item(item_id)
GetStep(w) ==
    LET item_id == wreq[w].item_id
        item == FindItem(items_db, item_id)
        entry == LogEntry("INFO", "Fetching item " \o IntToStr(item_id), Rid(w))
    IN  /\ pc[w] = "get"
        /\ IF item = None
           THEN Return(w, [error |-> "Item not found"], 404,
                    << entry,
                       LogEntry("WARNING",
                           "Item " \o IntToStr(item_id) \o " not found", Rid(w)) >>)
           ELSE Return(w, item[1], 200, << entry >>)
        /\ UNCHANGED <<store, history, seq, wreq, loc>>

\* create_item(): validation, then the dict literal, which reads next_id
CreateCheck(w) ==
    \E now \in ConcTimes :
        LET data == wreq[w].data IN
        /\ pc[w] = "create"
        /\ InvalidData(data) \/ ~Subscriptable(data)
               \/ next_id < InitialNextId + MaxConcCreates
        /\ IF InvalidData(data)
           THEN /\ Return(w, [error |-> "Name is required"], 400,
                       << LogEntry("ERROR", "Invalid request data", Rid(w)) >>)
                /\ UNCHANGED loc
           ELSE IF ~Subscriptable(data)
           THEN /\ Return(w, [error |-> "Internal server error"], 500,
                       << log_exception("POST", ItemsPath),
                          LogEntry("ERROR", "Internal server error", Rid(w)) >>)
                /\ UNCHANGED loc
           ELSE /\ loc' = [loc EXCEPT
                              ![w].new_item = Some(NewItem(next_id, data.obj, now))]
                /\ pc' = [pc EXCEPT ![w] = "create_append"]
                /\ UNCHANGED <<wresp, wlog>>
        /\ UNCHANGED <<store, history, seq, wreq>>

\* Mutant of CreateAppend: the dict enters the list before its fields other
\* than the id are filled in.
CreateAppendPartial(w) ==
    /\ pc[w] = "create_append"
    /\ items_db' = Append(items_db, [id |-> loc[w].new_item[1].id])
    /\ pc' = [pc EXCEPT ![w] = "create_load"]
    /\ during' = Seen({[id |-> loc[w].new_item[1].id]})
    /\ UNCHANGED <<next_id, issued, removed, expected, seq, wreq, loc, wresp, wlog>>

\* create_item(): items_db.append(new_item)
CreateAppend(w) ==
    /\ pc[w] = "create_append"
    /\ items_db' = Append(items_db, loc[w].new_item[1])
    /\ pc' = [pc EXCEPT ![w] = "create_load"]
    /\ during' = Seen({loc[w].new_item[1]})
    /\ UNCHANGED <<next_id, issued, removed, expected, seq, wreq, loc, wresp, wlog>>

\* create_item(): next_id += 1, the read
CreateLoad(w) ==
    /\ pc[w] = "create_load"
    /\ loc' = [loc EXCEPT ![w].tmp = next_id]
    /\ pc' = [pc EXCEPT ![w] = "create_store"]
    /\ UNCHANGED <<store, history, seq, wreq, wresp, wlog>>

\* create_item(): next_id += 1, the write; then the log entry and the response
CreateStore(w) ==
    LET new_item == loc[w].new_item[1] IN
    /\ pc[w] = "create_store"
    /\ next_id' = Advance(loc[w].tmp)
    /\ Return(w, new_item, 201,
           << [level |-> "INFO",
               message |-> "Created item " \o IntToStr(new_item.id),
               request_id |-> Rid(w), item_id |-> new_item.id] >>)
    /\ loc' = [loc EXCEPT ![w] = NoLocals]
    /\ issued' = issued \cup {new_item.id}
    /\ expected' = Append(expected, new_item)
    /\ UNCHANGED <<items_db, removed, during, seq, wreq>>

\* delete_item(item_id): the search
DeleteFind(w) ==
    LET item_id == wreq[w].item_id
        item == FindItem(items_db, item_id)
        entry == LogEntry("INFO", "Deleting item " \o IntToStr(item_id), Rid(w))
    IN  /\ pc[w] = "delete"
        /\ IF item = None
           THEN Return(w, [error |-> "Item not found"], 404,
                    << entry,
                       LogEntry("WARNING",
                           "Item " \o IntToStr(item_id) \o " not found for deletion",
                           Rid(w)) >>)
           ELSE /\ wlog' = [wlog EXCEPT ![w] = Append(wlog[w], entry)]
                /\ pc' = [pc EXCEPT ![w] = "delete_filter"]
                /\ UNCHANGED wresp
        /\ UNCHANGED <<store, history, seq, wreq, loc>>

\* delete_item(item_id): the list comprehension builds the new list
DeleteFilter(w) ==
    /\ pc[w] = "delete_filter"
    /\ loc' = [loc EXCEPT ![w].filtered = RemoveItem(items_db, wreq[w].item_id)]
    /\ pc' = [pc EXCEPT ![w] = "delete_store"]
    /\ UNCHANGED <<store, history, seq, wreq, wresp, wlog>>

\* delete_item(item_id): items_db = <the new list>; then the log entry and
\* the response.  References loaded before now are to the replaced list.
DeleteStore(w) ==
    LET item_id == wreq[w].item_id IN
    /\ pc[w] = "delete_store"
    /\ items_db' = loc[w].filtered
    /\ Return(w, [message |-> "Item " \o IntToStr(item_id) \o " deleted successfully"],
           200, << LogEntry("INFO", "Deleted item " \o IntToStr(item_id), Rid(w)) >>)
    /\ loc' = [u \in Workers |->
                  IF u = w THEN NoLocals
                  ELSE IF loc[u].ref = "live"
                       THEN [loc[u] EXCEPT !.ref = "stale", !.snapshot = items_db]
                       ELSE loc[u]]
    /\ removed' = removed \cup {item_id}
    /\ expected' = LET other(e) == e.id # item_id IN SelectSeq(expected, other)
    /\ during' = Seen(Range(loc[w].filtered))
    /\ UNCHANGED <<next_id, issued, seq, wreq>>

NextConc ==
    \E w \in Workers :
        \/ Start(w)
        \/ HealthStep(w)
        \/ ListRef(w)
        \/ ListLen(w)
        \/ ListSend(w)
        \/ GetStep(w)
        \/ CreateCheck(w)
        \/ CreateAppend(w)
        \/ CreateLoad(w)
        \/ CreateStore(w)
        \/ DeleteFind(w)
        \/ DeleteFilter(w)
        \/ DeleteStore(w)

InitConc == InitWith(ConcTimes)

SpecConc == InitConc /\ [][NextConc]_vars

(* =========================== properties ============================== *)

ItemNotFound == Response([error |-> "Item not found"], 404)
NameRequired == Response([error |-> "Name is required"], 400)

\* The item of db with id k (db holds exactly one).
ItemWithId(db, k) == db[CHOOSE i \in 1 .. Len(db) : db[i].id = k]

(* C1: after any sequence of requests handled one at a time, the ids of   *)
(* the items in the store are pairwise distinct.                           *)
C1_DistinctIds ==
    \A i, j \in 1 .. Len(items_db) :
        i # j => items_db[i].id # items_db[j].id

\* A store that creates and a delete have both changed.
C1_Witness ==
    /\ Len(items_db) >= 3
    /\ removed # {}
    /\ \E i \in 1 .. Len(items_db) : items_db[i].id >= InitialNextId

(* C2: when creates are handled concurrently, no two successful creates    *)
(* are assigned the same id: reading the counter, appending the item and   *)
(* advancing the counter behave as one atomic step.                        *)
C2_NoDoubleAssign ==
    \A u, v \in Workers :
        (/\ u # v
         /\ wreq[u].op = "create" /\ wresp[u].status = 201
         /\ wreq[v].op = "create" /\ wresp[v].status = 201)
            => wresp[u].body.id # wresp[v].body.id

(* C3: the counter never decreases and is strictly greater than every id  *)
(* in the store or ever issued (deleted ones included); the id of a newly  *)
(* created item is strictly greater than every id issued before it, so an  *)
(* id is never reused.                                                     *)
C3_CounterAboveIds ==
    \A k \in issued \cup removed \cup Ids(items_db) : k < next_id

C3_StepMonotone ==
    /\ next_id' >= next_id
    /\ issued \subseteq issued'
    /\ (req'.op = "create" /\ resp'.status = 201) =>
           /\ resp'.body.id \notin issued \cup removed
           /\ \A k \in issued \cup removed : k < resp'.body.id

C3_CounterMonotone == C3_CounterAboveIds /\ [][C3_StepMonotone /\ C3_CounterAboveIds']_vars

\* A create has been answered after an item was deleted.
C3_Witness ==
    /\ req.op = "create"
    /\ resp.status = 201
    /\ removed # {}
    /\ resp.body.id > InitialNextId

(* C4: list answers 200 with exactly the items seeded or created and not   *)
(* deleted since, in creation order, and count is their number.            *)
C4_ListComplete ==
    req.op = "list" =>
        /\ resp.status = 200
        /\ resp.body.items = expected
        /\ resp.body.count = Len(expected)
        /\ \A i, j \in 1 .. Len(resp.body.items) :
               i < j => resp.body.items[i].id < resp.body.items[j].id

\* A list after creates and after deletes of a seed and of a created item.
C4_Witness ==
    /\ req.op = "list"
    /\ next_id = InitialNextId + 2
    /\ \E k \in removed : k < InitialNextId
    /\ \E k \in removed : k >= InitialNextId
    /\ resp.body.count = 2

(* C5: a create whose name is absent or empty (no body, a body without a   *)
(* name field, a body whose name is the empty string) is answered 400      *)
(* {"error": "Name is required"} and creates no item.                      *)
NameAbsentOrEmpty(data) ==
    \/ data.json = "null"
    \/ data.json = "object" /\ "name" \notin DOMAIN data.obj
    \/ data.json = "object" /\ "name" \in DOMAIN data.obj /\ data.obj["name"] = ""

C5_NameRequired ==
    (req.op = "create" /\ NameAbsentOrEmpty(req.data)) =>
        /\ resp = NameRequired
        /\ \A i \in 1 .. Len(items_db) : items_db[i].name # ""

(* C6: a successful create answers 201 with an item whose id is the        *)
(* counter at the time of the request (never an id of the body), whose     *)
(* name is the body's and whose description is the body's or ""; the item  *)
(* is appended at the end of the store and the counter advances by one.    *)
C6_Step ==
    (req'.op = "create" /\ resp'.status \notin {400, 500}) =>
        /\ resp'.status = 201
        /\ resp'.body.id = next_id
        /\ resp'.body.name = req'.data.obj["name"]
        /\ resp'.body.description =
               (IF "description" \in DOMAIN req'.data.obj
                THEN req'.data.obj["description"] ELSE "")
        /\ resp'.body.created_at \in Times
        /\ DOMAIN resp'.body = {"id", "name", "description", "created_at"}
        /\ items_db' = items_db \o << resp'.body >>
        /\ next_id' = next_id + 1

C6_CreateResult == [][C6_Step]_vars

\* The first create on a fresh store, with a body that carries an id and a
\* description, has been given id 3.
C6_Witness ==
    /\ req.op = "create"
    /\ resp.status = 201
    /\ resp.body.id = 3
    /\ next_id = 4
    /\ Len(items_db) = 3
    /\ "id" \in DOMAIN req.data.obj
    /\ resp.body.id # req.data.obj["id"]
    /\ resp.body.description = "Blue"

(* C7: a get or delete of path id k is answered 200 iff an item with id k  *)
(* is in the store when the request is handled (get answers that item,     *)
(* delete the message "Item k deleted successfully"), and 404              *)
(* {"error": "Item not found"} otherwise.                                  *)
C7_Step ==
    (req'.op \in {"get", "delete"}) =>
        LET k == req'.item_id IN
        IF k \in Ids(items_db)
        THEN /\ resp'.status = 200
             /\ req'.op = "get" =>
                    /\ resp'.body.id = k
                    /\ \E i \in 1 .. Len(items_db) : items_db[i] = resp'.body
             /\ req'.op = "delete" =>
                    resp'.body =
                        [message |-> "Item " \o IntToStr(k) \o " deleted successfully"]
        ELSE resp' = ItemNotFound

C7_FoundIffPresent == [][C7_Step]_vars

\* Item 2, second in the list, has been deleted after item 1 was.
C7_Witness ==
    /\ req = [op |-> "delete", item_id |-> 2]
    /\ resp = Response([message |-> "Item 2 deleted successfully"], 200)
    /\ 1 \in removed

(* C8: once a delete of id k has answered 200, every later get of k and    *)
(* every later delete of k answers 404 {"error": "Item not found"}.        *)
C8_Step ==
    (req'.op \in {"get", "delete"} /\ req'.item_id \in removed) =>
        resp' = ItemNotFound

C8_NoResurrection ==
    /\ removed \cap Ids(items_db) = {}
    /\ [][C8_Step /\ removed \subseteq removed'
              /\ removed' \cap Ids(items_db') = {}]_vars

\* A deleted created id is asked for again after another create.
C8_Witness ==
    /\ req.op \in {"get", "delete"}
    /\ req.item_id \in removed
    /\ req.item_id >= InitialNextId
    /\ next_id > req.item_id + 1
    /\ resp = ItemNotFound

(* C9: after a create answered 201 with an item of id n, a get of n        *)
(* answers 200 with the same payload as long as no delete of n has         *)
(* succeeded, whatever creates and deletes of other ids come in between.   *)
C9_RoundTrip ==
    (req.op = "get" /\ req.item_id \in Ids(expected)) =>
        resp = Response(ItemWithId(expected, req.item_id), 200)

\* A get of the first created item after a later create and a delete.
C9_Witness ==
    /\ req = [op |-> "get", item_id |-> InitialNextId]
    /\ resp.status = 200
    /\ next_id = InitialNextId + 2
    /\ removed # {}

(* C10: a request answered with a failure (create 400, get or delete 404)  *)
(* leaves the item list and the counter as they were.                      *)
C10_Step ==
    (resp'.status \in {400, 404, 500}) =>
        /\ items_db' = items_db
        /\ next_id' = next_id

C10_FailureLeavesStore == [][C10_Step]_vars

\* A create has been rejected after another one succeeded.
C10_Witness ==
    /\ req.op = "create"
    /\ resp.status = 400
    /\ next_id > InitialNextId

(* C11: a successful delete of id k removes exactly the item with id k:   *)
(* every other item stays, with its fields and its id, in the same         *)
(* relative order, and the counter is unchanged.                           *)
C11_Step ==
    (req'.op = "delete" /\ resp'.status = 200) =>
        /\ next_id' = next_id
        /\ \E i \in 1 .. Len(items_db) :
               /\ items_db[i].id = req'.item_id
               /\ items_db' = SubSeq(items_db, 1, i - 1)
                                  \o SubSeq(items_db, i + 1, Len(items_db))

C11_DeleteFrame == [][C11_Step]_vars

\* Item 2 has been deleted from between item 1 and a created item.
C11_Witness ==
    /\ req = [op |-> "delete", item_id |-> 2]
    /\ resp.status = 200
    /\ Len(items_db) >= 2
    /\ items_db[1].id = 1
    /\ items_db[2].id >= InitialNextId

(* C12: list and get leave the item list and the counter as they were, so  *)
(* a get or list repeated with no create or delete in between is answered  *)
(* with the same status and payload each time.                             *)
ReadAnswer(r, db) ==
    IF r.op = "list"
    THEN Response([items |-> db, count |-> Len(db)], 200)
    ELSE IF r.item_id \in Ids(db)
         THEN Response(ItemWithId(db, r.item_id), 200)
         ELSE ItemNotFound

C12_Step ==
    (req'.op \in {"list", "get"}) =>
        /\ items_db' = items_db
        /\ next_id' = next_id
        /\ (req' = req => resp' = resp)
        /\ resp' = ReadAnswer(req', items_db')

C12_ReadsIdempotent == [][C12_Step]_vars

\* A get of a created item has been answered 200 after a delete, under the
\* second uuid (the same get under the first uuid is one step away).
C12_Witness ==
    /\ req = [op |-> "get", item_id |-> InitialNextId]
    /\ resp.status = 200
    /\ removed # {}
    /\ log[1].request_id = "uuid-b"

(* C13: in every reachable store state, the empty store included, health   *)
(* is answered 200 with status "healthy", whatever the store holds, and    *)
(* leaves the item list and the counter as they were.                      *)
C13_Step ==
    (req'.op = "health") =>
        /\ resp'.status = 200
        /\ resp'.body.status = "healthy"
        /\ resp'.body.service = APP_NAME
        /\ resp'.body.version = API_VERSION
        /\ resp'.body.timestamp \in Times
        /\ items_db' = items_db
        /\ next_id' = next_id

C13_HealthAlways == (ENABLED health) /\ [][C13_Step /\ (ENABLED health)']_vars

\* health has been answered on an empty store.
C13_Witness ==
    /\ req.op = "health"
    /\ resp.status = 200
    /\ items_db = <<>>
    /\ next_id > InitialNextId

(* C14: a get or list handled while creates and deletes are in flight     *)
(* never answers with a partially built item: every item of a 200 answer   *)
(* has all four fields and was an element of the store at some moment      *)
(* between the start of the request and its answer; a get answers with     *)
(* the item of the requested id or with 404 "Item not found".              *)
InFlight(w) == pc[w] # "idle"

ItemFields == {"id", "name", "description", "created_at"}

C14_Whole(w, item) == DOMAIN item = ItemFields /\ item \in during[w]

C14_NoTornRead ==
    \A w \in Workers :
        (~InFlight(w) /\ wreq[w].op \in ReadOps) =>
            IF wreq[w].op = "get"
            THEN \/ wresp[w] = ItemNotFound
                 \/ /\ wresp[w].status = 200
                    /\ C14_Whole(w, wresp[w].body)
                    /\ wresp[w].body.id = wreq[w].item_id
            ELSE /\ wresp[w].status = 200
                 /\ \A i \in 1 .. Len(wresp[w].body.items) :
                        C14_Whole(w, wresp[w].body.items[i])

\* A list was answered with the item a create appended while the list was
\* being handled (after its len() was taken), and that create is still in
\* flight.
C14_Witness ==
    \E w, u \in Workers :
        /\ ~InFlight(w) /\ wreq[w].op = "list" /\ wresp[w].status = 200
        /\ wresp[w].body.count < Len(wresp[w].body.items)
        /\ \E i \in 1 .. Len(wresp[w].body.items) :
               wresp[w].body.items[i].id = InitialNextId
        /\ pc[u] \in {"create_load", "create_store"}

(* C15: every item in the store has exactly the id, name, description and  *)
(* created_at it was created (or seeded) with; no request changes a field  *)
(* of an existing item.                                                    *)
C15_AsCreated ==
    \A i \in 1 .. Len(items_db) :
        /\ items_db[i].id \in Ids(expected)
        /\ items_db[i] = ItemWithId(expected, items_db[i].id)

C15_Step ==
    \A i \in 1 .. Len(items_db') :
        \/ \E j \in 1 .. Len(items_db) : items_db[j] = items_db'[i]
        \/ /\ req'.op = "create"
           /\ resp'.status = 201
           /\ items_db'[i] = resp'.body

C15_ItemsImmutable == C15_AsCreated /\ [][C15_Step /\ C15_AsCreated']_vars

\* A created item is in the store after a later create and a delete.
C15_Witness ==
    /\ InitialNextId \in Ids(items_db)
    /\ next_id = InitialNextId + 2
    /\ removed # {}
    /\ req.op = "delete"
    /\ resp.status = 200

(* C16: every handler invocation (health, list, get, create, delete)       *)
(* emits, before its response, a log entry of its own at the level of its  *)
(* outcome: INFO for a success, WARNING for not found, ERROR for a         *)
(* validation failure.                                                     *)
LevelFor(status) ==
    CASE status \in {200, 201} -> "INFO"
      [] status = 404 -> "WARNING"
      [] OTHER -> "ERROR"

C16_OutcomeLogged ==
    (req.op \in {"health", "list", "get", "create", "delete"}) =>
        \E i \in 2 .. Len(log) : log[i].level = LevelFor(resp.status)

\* The part of C16 the handlers of the item routes meet.
C16_FailuresLogged ==
    (resp.status \in {400, 404} /\ req.op \in {"get", "create", "delete"}) =>
        \E i \in 2 .. Len(log) : log[i].level = LevelFor(resp.status)

(* C17: for every request the correlation id is bound and the "Incoming    *)
(* request" entry emitted before the handler runs or touches the store;    *)
(* every entry logged while handling the request carries that id, never    *)
(* the id of another request, also with several requests in flight.        *)
C17_Entry(w, e) ==
    /\ "request_id" \in DOMAIN e
    /\ e.request_id = wreq[w].request_id
    /\ \A u \in Workers \ {w} :
           "request_id" \in DOMAIN wreq[u] => e.request_id # wreq[u].request_id

C17_Correlated ==
    \A w \in Workers :
        (InFlight(w) \/ wresp[w] # NoResponse) =>
            /\ Len(wlog[w]) >= 1
            /\ wlog[w][1].message = "Incoming request"
            /\ wlog[w][1].method = Method(wreq[w])
            /\ wlog[w][1].path = Path(wreq[w])
            /\ \A i \in 1 .. Len(wlog[w]) : C17_Entry(w, wlog[w][i])

\* The part of C17 the entries written by the application itself meet:
\* the entry of before_request comes first, and every entry that carries
\* an id carries the one bound to its own request, also with a create and
\* a delete of two workers in flight together.
C17_OwnEntriesCorrelated ==
    \A w \in Workers :
        (InFlight(w) \/ wresp[w] # NoResponse) =>
            /\ Len(wlog[w]) >= 1
            /\ wlog[w][1].message = "Incoming request"
            /\ \A i \in 1 .. Len(wlog[w]) :
                   "request_id" \in DOMAIN wlog[w][i] => C17_Entry(w, wlog[w][i])

(* C18: once all requests have completed, every item whose create was      *)
(* answered 201 and whose id no delete answered 200 for is in the store:   *)
(* a delete of another id never discards an item a concurrent create       *)
(* appended.                                                               *)
C18_NoLostCreate ==
    (\A w \in Workers : ~InFlight(w)) =>
        \A i \in 1 .. Len(expected) :
            \E j \in 1 .. Len(items_db) : items_db[j] = expected[i]

(* C19: among the delete requests for one id k, handled in sequence or     *)
(* concurrently, at most one is answered 200.                              *)
C19_DeletedOnce ==
    \A u, v \in Workers :
        (/\ u # v
         /\ wreq[u].op = "delete" /\ wresp[u].status = 200
         /\ wreq[v].op = "delete" /\ wresp[v].status = 200)
            => wreq[u].item_id # wreq[v].item_id

(* C20: in every list response, count is the number of elements of items,  *)
(* also when the list is handled concurrently with creates and deletes.    *)
C20_CountMatches ==
    \A w \in Workers :
        (wreq[w].op = "list" /\ wresp[w].status = 200) =>
            wresp[w].body.count = Len(wresp[w].body.items)

====
